---- MODULE Spec2Model ----
(***************************************************************************)
(* Model of slimshell (src/src/index.ts): the Slimshell constructor, the   *)
(* fluent builder (on / with / call / requiring / run), and the loop       *)
(* run -> getCommand -> runCommand -> getArgument.                         *)
(*                                                                         *)
(* A command line is a sequence of atoms: the pieces that                  *)
(* command.split(" ") yields.  JavaScript values are tagged records        *)
(* [k |-> type, s |-> text, items |-> elements] so that undefined,         *)
(* strings, booleans and arrays can be compared with ===.                  *)
(***************************************************************************)
EXTENDS Integers, Sequences, FiniteSets, TLC

\* ------------------------------------------------------------------ bounds
\* number of on(verb) calls made by the host program
MaxOn == 2
\* number of atoms of a raw command line
MaxAtoms == 2
\* number of keypress listeners the model lets accumulate on process.stdin
MaxListeners == 2

\* ------------------------------------------------------------ input alphabets
\* verbs the host program registers through on(verb)
OnVerbs == {"go", "exit"}
\* nouns the host program passes to with(noun)
Nouns == {"bob"}
\* user handlers passed to call(handler)
Handlers == {"h1"}
\* results a user handler may return (ICommandResponse)
Responses ==
  { [success |-> TRUE,  hasMessages |-> TRUE,  messages |-> <<"m1", "m2">>],
    [success |-> FALSE, hasMessages |-> TRUE,  messages |-> <<"m1", "m2">>],
    [success |-> TRUE,  hasMessages |-> FALSE, messages |-> <<>>] }
\* the atoms a typed line is made of ("" is what two adjacent spaces yield)
Atoms == {"go", "exit", "quit", "bob", "constructor", "", "--t=abc",
          "--token=", "--loud"}
\* what the user may type at an argument prompt
Answers == {"xyz", "", "  "}
\* names inherited by every plain object from Object.prototype
ProtoKeys == {"constructor"}
\* keys a flag bag may hold besides "_"
FlagNames == {"t", "token", "pw", "user", "loud"}

\* -------------------------------------------------------- JavaScript values
Undef == [k |-> "undefined", s |-> "", items |-> <<>>]
Str(x) == [k |-> "string", s |-> x, items |-> <<>>]
Bool(b) == [k |-> "boolean", s |-> IF b THEN "true" ELSE "false", items |-> <<>>]
\* an array of values
Arr(vs) == [k |-> "array", s |-> "", items |-> vs]

\* !v is false
Truthy(v) ==
  CASE v.k = "undefined" -> FALSE
    [] v.k = "string"    -> v.s # ""
    [] v.k = "boolean"   -> v.s = "true"
    [] v.k = "array"     -> TRUE

\* String.prototype.trim on the strings of Answers
Trim(x) == IF x = "  " THEN "" ELSE x

\* ---------------------------------------------------------------- parsing
\* normaliseCommand: command.trim(), on the atoms of the raw line: leading and
\* trailing spaces are leading and trailing empty atoms
RECURSIVE StripLeft(_)
StripLeft(l) ==
  IF Len(l) > 1 /\ Head(l) = "" THEN StripLeft(Tail(l)) ELSE l

RECURSIVE StripRight(_)
StripRight(l) ==
  IF Len(l) > 1 /\ l[Len(l)] = "" THEN StripRight(SubSeq(l, 1, Len(l) - 1)) ELSE l

normaliseCommand(raw) == StripRight(StripLeft(raw))

\* minimist: "--key=value" atoms
IsLongEq(a) == a \in {"--t=abc", "--token="}
FlagKey(a) == CASE a = "--t=abc" -> "t" [] a = "--token=" -> "token" [] a = "--loud" -> "loud"
FlagValue(a) == CASE a = "--t=abc" -> "abc" [] a = "--token=" -> ""
\* minimist: "--key" atoms
IsLong(a) == a \in {"--loud"}
\* minimist: /^(-|--)[^-]/ matches the atom
LooksLikeFlag(a) == IsLongEq(a) \/ IsLong(a)

EmptyBag == [pos |-> <<>>, flags |-> [n \in FlagNames |-> Undef]]

\* minimist setKey: a first value is stored, a boolean is overwritten, a
\* further value makes or extends an array
SetKey(argv, key, v) ==
  LET old == argv.flags[key] IN
  [argv EXCEPT !.flags[key] =
     IF old.k \in {"undefined", "boolean"} THEN v
     ELSE IF old.k = "array" THEN Arr(Append(old.items, v))
     ELSE Arr(<<old, v>>)]

\* minimist(atoms.slice(1)): "--key=value" sets key; "--key" takes the next
\* atom as its value unless that looks like a flag, and is true otherwise;
\* every other atom is positional ("_")
RECURSIVE minimist(_, _)
minimist(atoms, argv) ==
  IF atoms = <<>> THEN argv
  ELSE LET a == Head(atoms) IN
    IF IsLongEq(a)
    THEN minimist(Tail(atoms), SetKey(argv, FlagKey(a), Str(FlagValue(a))))
    ELSE IF IsLong(a)
    THEN IF Len(atoms) > 1 /\ ~LooksLikeFlag(atoms[2])
         THEN minimist(Tail(Tail(atoms)), SetKey(argv, FlagKey(a), Str(atoms[2])))
         ELSE minimist(Tail(atoms), SetKey(argv, FlagKey(a), Bool(TRUE)))
    ELSE minimist(Tail(atoms), [argv EXCEPT !.pos = Append(@, Str(a))])

\* args[name]
Get(args, name) == args.flags[name]
\* args[name] = v
Put(args, name, v) == [args EXCEPT !.flags[name] = v]

\* NounOf, were the noun of the line left out of the match
NounOfNone(args) == Undef

\* args["_"].length > 0 ? args["_"][0] : undefined
NounOf(args) == IF Len(args.pos) > 0 THEN args.pos[1] ELSE Undef

\* --------------------------------------------------------------- registry
\* IArgumentDefinition
ArgToken == [name |-> "token", description |-> "Token", hasAlt |-> TRUE,
             alternatives |-> <<"t">>]
ArgPw == [name |-> "pw", description |-> "Password", hasAlt |-> TRUE,
          alternatives |-> <<>>]
ArgUser == [name |-> "user", description |-> "User", hasAlt |-> FALSE,
            alternatives |-> <<>>]
\* argument lists the host program passes to requiring(...)
ReqChoices == {<<ArgToken, ArgPw>>, <<ArgUser>>}

\* exitCommands of the configuration passed to the constructor; Unset: omitted
Unset == <<"<unset>">>
ExitConfigs == {Unset, <<>>, <<"quit">>, <<"exit">>}

\* keys this.cds may hold
RegVerbs == OnVerbs \cup {"exit", "quit"}

\* DEFAULT_CONFIG.exitCommands
DefaultExitCommands == <<"exit">>

\* { verb: ec, command: exit }
ExitSpec(ec) ==
  [id |-> 0, verb |-> ec, noun |-> Undef, command |-> "exit",
   hasReq |-> FALSE, req |-> <<>>]

\* { verb, command: NoCommand }
FreshSpec(id, verb) ==
  [id |-> id, verb |-> verb, noun |-> Undef, command |-> "NoCommand",
   hasReq |-> FALSE, req |-> <<>>]

\* for (const ec of this.config.exitCommands) this.cds[ec] = [{...}]
RECURSIVE InstallExits(_, _)
InstallExits(c, ecs) ==
  IF ecs = <<>> THEN c
  ELSE InstallExits([c EXCEPT ![Head(ecs)] = <<ExitSpec(Head(ecs))>>], Tail(ecs))

\* ConstructCds, were the default exit verb left out of the effective list
ConstructCdsNoDefault(exitCommands) ==
  InstallExits([v \in RegVerbs |-> <<>>], exitCommands)

\* the registry the constructor leaves
ConstructCds(exitCommands) ==
  InstallExits([v \in RegVerbs |-> <<>>], exitCommands \o DefaultExitCommands)

\* CdsOn, were the record put in front of the verb's list (unshift for push)
CdsOnFront(c, id, verb) == [c EXCEPT ![verb] = <<FreshSpec(id, verb)>> \o @]

\* on(verb): append a fresh record to the verb's list
CdsOn(c, id, verb) == [c EXCEPT ![verb] = Append(@, FreshSpec(id, verb))]

\* the record of session id
SpecOf(c, id) ==
  LET v == CHOOSE v \in DOMAIN c : \E i \in 1..Len(c[v]) : c[v][i].id = id
      i == CHOOSE i \in 1..Len(c[v]) : c[v][i].id = id
  IN c[v][i]

\* the stage objects of session id share one record (this.cd), which is the
\* one in the registry: a stage that assigns a field of it changes it in place
CdsUpdate(c, id, d) ==
  [v \in DOMAIN c |->
     [i \in 1..Len(c[v]) |-> IF c[v][i].id = id THEN d ELSE c[v][i]]]

\* ----------------------------------------------------------- stage objects
\* the classes of the objects the builder returns
Classes == {"_ssBase", "_ssCall", "_ssWith", "_ssRun", "_ssRequiring"}
\* class X extends Y
ParentOf(c) ==
  CASE c = "_ssCall"      -> "_ssBase"
    [] c = "_ssWith"      -> "_ssCall"
    [] c = "_ssRun"       -> "_ssBase"
    [] c = "_ssRequiring" -> "_ssRun"
    [] OTHER              -> "none"
\* the public methods a class declares itself
OwnMethods(c) ==
  CASE c = "_ssCall"      -> {"call"}
    [] c = "_ssWith"      -> {"with"}
    [] c = "_ssRun"       -> {"run"}
    [] c = "_ssRequiring" -> {"requiring"}
    [] OTHER              -> {}
\* the methods an object of class c offers: its own and the inherited ones
RECURSIVE Methods(_)
Methods(c) ==
  IF c = "none" THEN {} ELSE OwnMethods(c) \cup Methods(ParentOf(c))
\* Returns, were with(noun) to return its own object (return this)
ReturnsThis(stage) ==
  CASE stage = "on"        -> "_ssWith"
    [] stage = "with"      -> "_ssWith"
    [] stage = "call"      -> "_ssRequiring"
    [] stage = "requiring" -> "_ssRun"
\* the class of the object each stage returns (new _ssXxx(this.shell, this.cd))
Returns(stage) ==
  CASE stage = "on"        -> "_ssWith"
    [] stage = "with"      -> "_ssCall"
    [] stage = "call"      -> "_ssRequiring"
    [] stage = "requiring" -> "_ssRun"
Stages == {"on", "with", "call", "requiring"}

\* what the host program has done in one builder session: the verb passed to
\* on, the last values passed to with, call and requiring, and the class of
\* the object each stage returned ("none": stage not called)
FreshSession(verb) ==
  [verb |-> verb, noun |-> Undef, command |-> "NoCommand", hasReq |-> FALSE,
   req |-> <<>>,
   ret |-> [st \in Stages |-> IF st = "on" THEN Returns("on") ELSE "none"]]

\* some object the session's stages returned offers method m
Offers(session, m) == \E st \in Stages : m \in Methods(session.ret[st])

\* ------------------------------------------------------------------ state
VARIABLES
  pc,         \* "new" | "ctorFailed" | "built" | "onFailed" | "read" | "prompt" |
              \* "handler" | "stopped" | "crashed" | "parse" | "parsed"
  config,     \* this.config.exitCommands
  cds,        \* this.cds: verb -> sequence of command definitions
  nextId,     \* number of on(verb) calls so far; a session is named by its number
  sess,       \* the builder sessions of the host program, by number
  settled,    \* the promise of getArgument: "none" (no prompt) | "pending" |
              \* "value" | "cancel" (settled, runCommand not yet resumed)
  held,       \* the value that promise was resolved with
  ignored,    \* the last key event that found no pending promise, since the
              \* loop last moved on: "none" | "escape" | "answer"
  listeners,  \* number of "keypress" listeners attached to process.stdin
  line,       \* the normalised command being dispatched, or dispatched last
  out,        \* what console.log printed since that command was read
  invoked,    \* the handler calls made for that command: <<[id, command, args]>>
  returned,   \* the responses the handlers resolved with for that command
  prompts,    \* number of argument prompts issued for that command
  cd,         \* runCommand: the matched definition
  args0,      \* runCommand: args as minimist returned it
  args,       \* runCommand: args
  ri          \* runCommand: position of req in cd.requiredArguments

vars == <<pc, config, cds, nextId, sess, settled, held, ignored, listeners, line, out,
          invoked, returned, prompts, cd, args0, args, ri>>

NoLine == <<>>
NoCd == FreshSpec(-1, "")

\* the locals of runCommand when no command is being dispatched
NoLocals == cd = NoCd /\ args0 = EmptyBag /\ args = EmptyBag /\ ri = 0

Init ==
  /\ pc = "new"
  /\ config = <<>>
  /\ cds = [v \in RegVerbs |-> <<>>]
  /\ nextId = 0
  /\ sess = <<>>
  /\ settled = "none"
  /\ held = ""
  /\ ignored = "none"
  /\ listeners = 0
  /\ line = NoLine
  /\ out = <<>>
  /\ invoked = <<>>
  /\ returned = <<>>
  /\ prompts = 0
  /\ NoLocals

\* ------------------------------------------------------------ construction
\* new Slimshell(config): spreading an omitted exitCommands throws a TypeError
Construct(cfg) ==
  /\ pc = "new"
  /\ IF cfg = Unset
     THEN /\ pc' = "ctorFailed"
          /\ UNCHANGED <<config, cds>>
     ELSE /\ pc' = "built"
          /\ config' = cfg \o DefaultExitCommands
          /\ cds' = ConstructCds(cfg)
  /\ UNCHANGED <<nextId, sess, settled, held, ignored, listeners, line, out,
                 invoked, returned, prompts, cd, args0, args, ri>>

\* ----------------------------------------------------------------- builder
\* this.cds[verb]: an own key holds an array; a name inherited from
\* Object.prototype holds something that is no array; any other is undefined
CdsGet(c, verb) ==
  IF verb \in DOMAIN c /\ c[verb] # <<>> THEN "array"
  ELSE IF verb \in ProtoKeys THEN "inherited"
  ELSE "undefined"

loopVars == <<settled, held, ignored, listeners, line, out, invoked, returned, prompts,
              cd, args0, args, ri>>

\* shell.on(verb); for a name inherited from Object.prototype this.cds[verb]
\* is no array and this.cds[verb].push throws a TypeError
On(verb) ==
  /\ pc = "built"
  /\ nextId < MaxOn
  /\ IF CdsGet(cds, verb) = "inherited"
     THEN /\ pc' = "onFailed"
          /\ UNCHANGED <<cds, nextId, sess>>
     ELSE /\ nextId' = nextId + 1
          /\ cds' = CdsOn(cds, nextId + 1, verb)
          /\ sess' = Append(sess, FreshSession(verb))
          /\ UNCHANGED pc
  /\ UNCHANGED config
  /\ UNCHANGED loopVars

SetNoun(noun, d) == [d EXCEPT !.noun = Str(noun)]
SetCommand(h, d) == [d EXCEPT !.command = h]
SetRequired(r, d) == [d EXCEPT !.hasReq = TRUE, !.req = r]

\* _ssWith.with(noun), on the object on(verb) returned for session id
With(id, noun) ==
  /\ pc = "built"
  /\ id \in 1..nextId
  /\ Offers(sess[id], "with")
  /\ cds' = CdsUpdate(cds, id, SetNoun(noun, SpecOf(cds, id)))
  /\ sess' = [sess EXCEPT ![id].noun = Str(noun), ![id].ret["with"] = Returns("with")]
  /\ UNCHANGED <<pc, config, nextId>>
  /\ UNCHANGED loopVars

\* _ssCall.call(command), on the object on(verb) or with(noun) returned
Call(id, h) ==
  /\ pc = "built"
  /\ id \in 1..nextId
  /\ Offers(sess[id], "call")
  /\ cds' = CdsUpdate(cds, id, SetCommand(h, SpecOf(cds, id)))
  /\ sess' = [sess EXCEPT ![id].command = h, ![id].ret["call"] = Returns("call")]
  /\ UNCHANGED <<pc, config, nextId>>
  /\ UNCHANGED loopVars

\* session id has a _ssRequiring object: call(command) has returned one
Called(id) == id \in 1..nextId /\ SpecOf(cds, id).command \in Handlers

\* _ssRequiring.requiring(requiredArguments)
Requiring(id, r) ==
  /\ pc = "built"
  /\ Called(id)
  /\ Offers(sess[id], "requiring")
  /\ cds' = CdsUpdate(cds, id, SetRequired(r, SpecOf(cds, id)))
  /\ sess' = [sess EXCEPT ![id].hasReq = TRUE, ![id].req = r,
                          ![id].ret["requiring"] = Returns("requiring")]
  /\ UNCHANGED <<pc, config, nextId>>
  /\ UNCHANGED loopVars

\* _ssRun.run(), on the object call(command) or requiring(...) returned
StageRun(id) ==
  /\ pc = "built"
  /\ Called(id)
  /\ Offers(sess[id], "run")
  /\ pc' = "read"
  /\ UNCHANGED <<config, cds, nextId, sess>>
  /\ UNCHANGED loopVars

\* Slimshell.run() is public: the host program may call it on the shell itself
ShellRun ==
  /\ pc = "built"
  /\ pc' = "read"
  /\ UNCHANGED <<config, cds, nextId, sess>>
  /\ UNCHANGED loopVars

\* -------------------------------------------------------------- runCommand
\* Find, were the last match taken
FindLast(defs, noun) ==
  IF \E i \in 1..Len(defs) : defs[i].noun = noun
  THEN CHOOSE i \in 1..Len(defs) :
         /\ defs[i].noun = noun
         /\ \A j \in (i + 1)..Len(defs) : defs[j].noun # noun
  ELSE 0

\* Array.prototype.find((def) => def.noun === noun): the position of the first
\* match, 0 for undefined
Find(defs, noun) ==
  IF \E i \in 1..Len(defs) : defs[i].noun = noun
  THEN CHOOSE i \in 1..Len(defs) :
         /\ defs[i].noun = noun
         /\ \A j \in 1..(i - 1) : defs[j].noun # noun
  ELSE 0

\* req.alternatives.find((alt) => args[alt] !== undefined): the first such
\* element of alternatives, which is the alternative's name
FindAlternative(alts, a) ==
  IF \E i \in 1..Len(alts) : Get(a, alts[i]) # Undef
  THEN LET i == CHOOSE i \in 1..Len(alts) :
                  /\ Get(a, alts[i]) # Undef
                  /\ \A j \in 1..(i - 1) : Get(a, alts[j]) = Undef
       IN Str(alts[i])
  ELSE Undef

\* the for loop over cd.requiredArguments from position i, up to its next
\* suspension: a prompt ("prompt"), a TypeError on req.alternatives.find
\* ("throw"), or the end of the loop ("call")
RECURSIVE Resolve(_, _, _)
Resolve(req, a, i) ==
  IF i > Len(req) THEN [st |-> "call", args |-> a, i |-> 0]
  ELSE IF Truthy(Get(a, req[i].name)) THEN Resolve(req, a, i + 1)
  ELSE IF ~req[i].hasAlt THEN [st |-> "throw", args |-> a, i |-> i]
  ELSE LET a2 == Put(a, req[i].name, FindAlternative(req[i].alternatives, a))
       IN IF Truthy(Get(a2, req[i].name))
          THEN Resolve(req, a2, i + 1)
          ELSE [st |-> "prompt", args |-> a2, i |-> i]

\* runCommand from its first line to its first suspension
Dispatch(c, l) ==
  LET a    == minimist(Tail(l), EmptyBag)
      verb == Head(l)
      noun == NounOf(a)
      got  == CdsGet(c, verb)
      k    == IF got = "array" THEN Find(c[verb], noun) ELSE 0
  IN IF got = "inherited" THEN [st |-> "throw", cd |-> NoCd, args |-> a, i |-> 0]
     ELSE IF k = 0 THEN [st |-> "wut", cd |-> NoCd, args |-> a, i |-> 0]
     ELSE IF ~c[verb][k].hasReq
          THEN [st |-> "call", cd |-> c[verb][k], args |-> a, i |-> 0]
          ELSE LET r == Resolve(c[verb][k].req, a, 1)
               IN [st |-> r.st, cd |-> c[verb][k], args |-> r.args, i |-> r.i]

\* what a suspension of runCommand leaves in the state
Suspend(st, d, a, i, o, n) ==
  /\ st = "prompt" => listeners < MaxListeners
  /\ pc' = CASE st = "prompt" -> "prompt"
             [] st = "call"   -> "handler"
             [] st = "throw"  -> "crashed"
             [] st = "wut"    -> "read"
  /\ listeners' = IF st = "prompt" THEN listeners + 1 ELSE listeners
  /\ prompts' = IF st = "prompt" THEN n + 1 ELSE n
  /\ out' = IF st = "wut" THEN Append(o, "wut?") ELSE o
  /\ invoked' = IF st = "call"
                THEN <<[id |-> d.id, command |-> d.command, args |-> a]>>
                ELSE <<>>
  /\ settled' = IF st = "prompt" THEN "pending" ELSE "none"
  /\ held' = ""
  /\ ignored' = "none"
  /\ IF st \in {"prompt", "call"}
     THEN cd' = d /\ args' = a /\ ri' = i
     ELSE cd' = NoCd /\ args' = EmptyBag /\ ri' = 0

\* the raw lines the user may type
RawLines == UNION {[1..n -> Atoms] : n \in 1..MaxAtoms}

\* ReadLine, were run to read the next line without awaiting runCommand
ReadLineAnytime(raw) ==
  /\ pc \in {"read", "prompt", "handler"}
  /\ LET l == normaliseCommand(raw)
         d == Dispatch(cds, l)
     IN /\ line' = l
        /\ args0' = IF d.st \in {"prompt", "call"}
                    THEN minimist(Tail(l), EmptyBag) ELSE EmptyBag
        /\ Suspend(d.st, d.cd, d.args, d.i, <<>>, 0)
        /\ returned' = <<>>
  /\ UNCHANGED <<config, cds, nextId, sess>>

\* run: getCommand resolves with a line; runCommand(normaliseCommand(line))
ReadLine(raw) ==
  /\ pc = "read"
  /\ LET l == normaliseCommand(raw)
         d == Dispatch(cds, l)
     IN /\ line' = l
        /\ args0' = IF d.st \in {"prompt", "call"}
                    THEN minimist(Tail(l), EmptyBag) ELSE EmptyBag
        /\ Suspend(d.st, d.cd, d.args, d.i, <<>>, 0)
        /\ returned' = <<>>
  /\ UNCHANGED <<config, cds, nextId, sess>>

\* resolve, were a settled promise to take the later outcome
PromiseResolveAlways(st) == "value"

\* resolve(value) on a promise in state st: a settled promise stays as it is
PromiseResolve(st) == IF st = "pending" THEN "value" ELSE st

\* reject, were a promise to take the outcome whatever its state
PromiseRejectAlways(st) == "cancel"

\* reject() on a promise in state st: a settled promise stays as it is
PromiseReject(st) == IF st = "pending" THEN "cancel" ELSE st

\* Resolved, were the prompt an if instead of a while: any answer is taken
ResolvedNoRetry(t) ==
  /\ LET a == Put(args, cd.req[ri].name, Str(t))
         r == Resolve(cd.req, a, ri + 1)
     IN /\ Suspend(r.st, cd, r.args, r.i, out, prompts)
        /\ args0' = IF r.st \in {"prompt", "call"} THEN args0 ELSE EmptyBag
  /\ UNCHANGED <<config, cds, nextId, sess, line, returned>>

\* runCommand resumes after await this.getArgument(req) with the value t: the
\* rest of the while loop and of the for loop
Resolved(t) ==
  /\ LET a == Put(args, cd.req[ri].name, Str(t))
         r == IF Truthy(Get(a, cd.req[ri].name))
              THEN Resolve(cd.req, a, ri + 1)
              ELSE [st |-> "prompt", args |-> a, i |-> ri]
     IN /\ Suspend(r.st, cd, r.args, r.i, out, prompts)
        /\ args0' = IF r.st \in {"prompt", "call"} THEN args0 ELSE EmptyBag
  /\ UNCHANGED <<config, cds, nextId, sess, line, returned>>

\* runCommand resumes in its catch block: initInput, "Cancelled", return true
Rejected ==
  /\ pc' = "read"
  /\ out' = Append(out, "Cancelled")
  /\ settled' = "none"
  /\ held' = ""
  /\ ignored' = "none"
  /\ cd' = NoCd /\ args0' = EmptyBag /\ args' = EmptyBag /\ ri' = 0
  /\ UNCHANGED <<config, cds, nextId, sess, listeners, line, invoked, returned, prompts>>

\* getArgument resolves with the line typed at the prompt and runCommand
\* resumes before any other key arrives
Answer(v) ==
  /\ pc = "prompt"
  /\ settled = "pending"
  /\ Resolved(Trim(v))

\* Escape, were the catch block to fall through into the while loop instead of
\* returning: the argument is prompted for again
EscapeNoReturn ==
  /\ pc = "prompt"
  /\ settled = "pending"
  /\ listeners < MaxListeners
  /\ listeners' = listeners + 1
  /\ prompts' = prompts + 1
  /\ out' = Append(out, "Cancelled")
  /\ UNCHANGED <<pc, config, cds, nextId, sess, settled, held, ignored, line,
                 invoked, returned, cd, args0, args, ri>>

\* the escape key while getArgument is pending: reject, then the catch block
\* of runCommand before any other key arrives
Escape ==
  /\ pc = "prompt"
  /\ settled = "pending"
  /\ Rejected

\* a line arrives at the question of getArgument: resolve(value.trim()); the
\* continuation of runCommand has not run yet
AnswerLine(v) ==
  /\ pc = "prompt"
  /\ settled' = PromiseResolve(settled)
  /\ held' = IF settled' # settled THEN Trim(v) ELSE held
  /\ ignored' = IF settled' # settled THEN ignored ELSE "answer"
  /\ UNCHANGED <<pc, config, cds, nextId, sess, listeners, line, out, invoked,
                 returned, prompts, cd, args0, args, ri>>

\* the escape key, whatever the loop is doing: every keypress listener
\* registered so far calls reject() on the promise of its own getArgument, all
\* of them settled but the one of a pending prompt
EscapeKey ==
  /\ pc \in {"read", "prompt", "handler"}
  /\ settled' = IF listeners > 0 THEN PromiseReject(settled) ELSE settled
  /\ ignored' = IF settled' # settled THEN ignored ELSE "escape"
  /\ UNCHANGED <<pc, config, cds, nextId, sess, held, listeners, line, out,
                 invoked, returned, prompts, cd, args0, args, ri>>

\* the continuation of runCommand after the promise of getArgument has settled
Resume ==
  /\ pc = "prompt"
  /\ settled \in {"value", "cancel"}
  /\ IF settled = "value" THEN Resolved(held) ELSE Rejected

\* what a command may resolve with
ResponsesOf(command) ==
  CASE command = "exit" ->
         {[success |-> FALSE, hasMessages |-> TRUE, messages |-> <<"byeee">>]}
    [] command = "NoCommand" ->
         {[success |-> TRUE, hasMessages |-> FALSE, messages |-> <<>>]}
    [] OTHER -> Responses

\* cd.command(args) resolves: print the messages, return response.success
HandlerReturn(resp) ==
  /\ pc = "handler"
  /\ resp \in ResponsesOf(cd.command)
  /\ out' = IF resp.hasMessages THEN out \o resp.messages ELSE out
  /\ pc' = IF resp.success THEN "read" ELSE "stopped"
  /\ returned' = Append(returned, resp)
  /\ cd' = NoCd /\ args0' = EmptyBag /\ args' = EmptyBag /\ ri' = 0
  /\ ignored' = "none"
  /\ UNCHANGED <<config, cds, nextId, sess, settled, held, listeners, line,
                 invoked, prompts>>

\* ----------------------------------------------------------- specification
AllResponses == Responses \cup ResponsesOf("exit") \cup ResponsesOf("NoCommand")

\* lines of a verb, or of a verb and a noun
ShortLines == {<<v>> : v \in RegVerbs} \cup {<<v, n>> : v \in RegVerbs, n \in Nouns}

\* Spec: every host program of at most MaxOn sessions, then the loop on the
\* lines of ShortLines
Next ==
  \/ \E cfg \in ExitConfigs : Construct(cfg)
  \/ \E verb \in OnVerbs \cup ProtoKeys : On(verb)
  \/ \E id \in 1..MaxOn, noun \in Nouns : With(id, noun)
  \/ \E id \in 1..MaxOn, h \in Handlers : Call(id, h)
  \/ \E id \in 1..MaxOn, r \in ReqChoices : Requiring(id, r)
  \/ \E id \in 1..MaxOn : StageRun(id)
  \/ ShellRun
  \/ \E raw \in ShortLines : ReadLine(raw)
  \/ \E v \in Answers : Answer(v)
  \/ Escape
  \/ \E resp \in AllResponses : HandlerReturn(resp)

Spec == Init /\ [][Next]_vars

\* SpecLoop: the loop on every raw line of at most MaxAtoms atoms, for the host
\* program
\*   shell = new Slimshell({exitCommands: ["quit"]});
\*   shell.on("go").call(h1).requiring([token (alternatives: t), pw (alternatives: none)]);
\*   shell.on("go").with("bob").call(h1).requiring([user (no alternatives)]);
LoopExitCommands == <<"quit">>

LoopCds ==
  LET c1 == CdsOn(ConstructCds(LoopExitCommands), 1, "go")
      c2 == CdsUpdate(c1, 1, SetCommand("h1", SpecOf(c1, 1)))
      c3 == CdsUpdate(c2, 1, SetRequired(<<ArgToken, ArgPw>>, SpecOf(c2, 1)))
      c4 == CdsOn(c3, 2, "go")
      c5 == CdsUpdate(c4, 2, SetNoun("bob", SpecOf(c4, 2)))
      c6 == CdsUpdate(c5, 2, SetCommand("h1", SpecOf(c5, 2)))
  IN CdsUpdate(c6, 2, SetRequired(<<ArgUser>>, SpecOf(c6, 2)))

\* the sessions of that host program
LoopSessions ==
  <<[FreshSession("go") EXCEPT
       !.command = "h1", !.hasReq = TRUE, !.req = <<ArgToken, ArgPw>>,
       !.ret = [st \in Stages |-> IF st = "with" THEN "none" ELSE Returns(st)]],
    [FreshSession("go") EXCEPT
       !.noun = Str("bob"), !.command = "h1", !.hasReq = TRUE, !.req = <<ArgUser>>,
       !.ret = [st \in Stages |-> Returns(st)]]>>

InitLoop ==
  /\ pc = "built"
  /\ config = LoopExitCommands \o DefaultExitCommands
  /\ cds = LoopCds
  /\ nextId = 2
  /\ sess = LoopSessions
  /\ settled = "none"
  /\ held = ""
  /\ ignored = "none"
  /\ listeners = 0
  /\ line = NoLine
  /\ out = <<>>
  /\ invoked = <<>>
  /\ returned = <<>>
  /\ prompts = 0
  /\ NoLocals

NextLoop ==
  \/ \E id \in 1..2 : StageRun(id)
  \/ ShellRun
  \/ \E raw \in RawLines : ReadLine(raw)
  \/ \E v \in Answers : Answer(v)
  \/ Escape
  \/ \E v \in Answers : AnswerLine(v)
  \/ EscapeKey
  \/ Resume
  \/ \E resp \in AllResponses : HandlerReturn(resp)

SpecLoop == InitLoop /\ [][NextLoop]_vars

\* SpecParse: the first statements of runCommand on every raw line of at most
\* MaxParseAtoms atoms
MaxParseAtoms == 3

ParseLines == UNION {[1..n -> Atoms] : n \in 1..MaxParseAtoms}

\* runCommand(normaliseCommand(raw)) up to const noun = ...: atoms = split(" "),
\* args = minimist(atoms.slice(1)); verb is Head(line), noun is NounOf(args0)
Parse(raw) ==
  /\ pc = "parse"
  /\ pc' = "parsed"
  /\ line' = normaliseCommand(raw)
  /\ args0' = minimist(Tail(normaliseCommand(raw)), EmptyBag)
  /\ UNCHANGED <<config, cds, nextId, sess, settled, held, ignored, listeners,
                 out, invoked, returned, prompts, cd, args, ri>>

InitParse ==
  /\ pc = "parse"
  /\ config = LoopExitCommands \o DefaultExitCommands
  /\ cds = LoopCds
  /\ nextId = 2
  /\ sess = LoopSessions
  /\ settled = "none"
  /\ held = ""
  /\ ignored = "none"
  /\ listeners = 0
  /\ line = NoLine
  /\ out = <<>>
  /\ invoked = <<>>
  /\ returned = <<>>
  /\ prompts = 0
  /\ NoLocals

NextParse == \E raw \in ParseLines : Parse(raw)

SpecParse == InitParse /\ [][NextParse]_vars

\* the host program of SpecLoop is one Spec builds
LoopProgramBuilt ==
  /\ pc = "built"
  /\ cds = LoopCds
  /\ sess = LoopSessions
  /\ config = LoopExitCommands \o DefaultExitCommands

\* ------------------------------------------------------------------ claims
Range(f) == {f[i] : i \in DOMAIN f}

\* the bag minimist returned for the command in line
ParsedBag == minimist(Tail(line), EmptyBag)

\* some alternative of argument r is present in bag a
AltPresent(r, a) ==
  r.hasAlt /\ \E j \in 1..Len(r.alternatives) : Get(a, r.alternatives[j]) # Undef

\* the value bag a holds for the first alternative of r that is present
FirstAltValue(r, a) ==
  LET j == CHOOSE j \in 1..Len(r.alternatives) :
             /\ Get(a, r.alternatives[j]) # Undef
             /\ \A k \in 1..(j - 1) : Get(a, r.alternatives[k]) = Undef
  IN Get(a, r.alternatives[j])

\* C1 (as claimed): when a handler is invoked, every required argument whose
\* primary name was absent from the parsed bag and one of whose alternatives
\* was present holds the VALUE of the first present alternative; and no prompt
\* is ever pending for such an argument.
C1_AlternativeValue ==
  /\ pc = "handler" =>
       \A i \in 1..Len(cd.req) :
         (Get(args0, cd.req[i].name) = Undef /\ AltPresent(cd.req[i], args0))
           => Get(invoked[1].args, cd.req[i].name) = FirstAltValue(cd.req[i], args0)
  /\ pc = "prompt" =>
       ~(Get(args0, cd.req[ri].name) = Undef /\ AltPresent(cd.req[ri], args0))

\* C2: a cancelled command prints exactly one "Cancelled" and nothing else,
\* invokes no handler, leaves the loop reading the next line with no local of
\* the cancelled command kept; the step that cancels issues no further prompt;
\* and the bag of every command starts from its own line only.
C2_CancelAbortsCommand ==
  /\ []("Cancelled" \in Range(out) =>
          /\ pc = "read"
          /\ out = <<"Cancelled">>
          /\ invoked = <<>> /\ returned = <<>>
          /\ NoLocals)
  /\ [][(pc = "prompt" /\ pc' = "read") =>
          (out' = <<"Cancelled">> /\ prompts' = prompts /\ invoked' = <<>>)]_vars
  /\ [](pc \in {"prompt", "handler"} => args0 = ParsedBag)

\* C2 witness: a command cancelled at its second prompt
C2_Witness == pc = "read" /\ out = <<"Cancelled">> /\ prompts = 2

\* C3 (as claimed): at most one keypress listener is attached, and none when
\* no prompt is pending.
C3_NoListenerAccumulation ==
  /\ listeners <= 1
  /\ pc # "prompt" => listeners = 0

\* C4 (as claimed): run() has returned control exactly when a handler resolved
\* with success = false, and the messages of a response are all printed, in
\* order, before that.
C4_LoopTermination ==
  /\ pc \in {"stopped", "crashed"} <=> (returned # <<>> /\ ~returned[1].success)
  /\ returned # <<>> =>
       out = IF returned[1].hasMessages THEN returned[1].messages ELSE <<>>

\* no command definition of the registry has the verb and noun of line l
NoMatch(l) ==
  ~\E v \in DOMAIN cds : \E i \in 1..Len(cds[v]) :
      /\ cds[v][i].verb = Head(l)
      /\ cds[v][i].noun = NounOf(minimist(Tail(l), EmptyBag))

\* C5 (as claimed): a line that matches no command definition prints exactly
\* one "wut?", invokes no handler, issues no prompt and leaves the loop
\* reading.
C5_UnmatchedCommand ==
  (line # NoLine /\ NoMatch(line)) =>
    /\ pc = "read"
    /\ out = <<"wut?">>
    /\ invoked = <<>>
    /\ prompts = 0

\* the line is an exit verb with no noun
ExitLine ==
  line # NoLine /\ Head(line) \in Range(config) /\ NounOf(ParsedBag) = Undef

\* C6: a line that is an exit verb (the default or a configured alias) with no
\* noun has the exit handler invoked, and then the loop stopped with "byeee"
\* printed, whatever the builder registered.
C6_ExitVerbStops ==
  ExitLine =>
    \/ pc = "handler" /\ invoked[1].command = "exit"
    \/ /\ pc = "stopped"
       /\ out = <<"byeee">>
       /\ returned = <<[success |-> FALSE, hasMessages |-> TRUE, messages |-> <<"byeee">>]>>

\* C6 witness: the alias stops the loop of a program with two user commands
C6_Witness ==
  pc = "stopped" /\ line = <<"quit">> /\ out = <<"byeee">> /\ nextId = 2

\* C7 (as claimed): construction succeeds for every configuration, and right
\* after it the registry holds one exit definition per effective exit verb
\* and nothing else.
C7_ExitConfiguration ==
  /\ pc # "ctorFailed"
  /\ (pc = "built" /\ nextId = 0) =>
       /\ "exit" \in Range(config)
       /\ \A v \in RegVerbs :
            cds[v] = IF v \in Range(config) THEN <<ExitSpec(v)>> ELSE <<>>

\* the definitions registered for the verb and noun of the line
SameAsLine ==
  IF Head(line) \in DOMAIN cds
  THEN {d \in Range(cds[Head(line)]) : d.noun = NounOf(ParsedBag)}
  ELSE {}

\* C8: the handler invoked for a line is that of the definition with the
\* line's verb and noun whose on(verb) call came first (the smallest session
\* number; 0 is the constructor's), the nouns being compared with ===.
C8_FirstRegisteredWins ==
  invoked # <<>> =>
    \E d \in SameAsLine :
      /\ invoked[1].id = d.id
      /\ invoked[1].command = d.command
      /\ \A e \in SameAsLine : d.id <= e.id

\* C8 witness: a handler invoked for a verb and noun registered twice by the
\* builder
C8_Witness ==
  /\ invoked # <<>>
  /\ invoked[1].id = 1
  /\ \E e \in SameAsLine : e.id = 2

\* the builder registered a command with the line's verb and no noun
UserExitCommand ==
  ExitLine /\ \E d \in SameAsLine : d.id > 0

\* C9: when the builder registered a command whose verb is an exit verb, with
\* no noun, a line of that verb with no noun invokes the built-in exit
\* handler, never the user's.
C9_ExitShadowsUser ==
  (UserExitCommand /\ invoked # <<>>) =>
    invoked[1].id = 0 /\ invoked[1].command = "exit"

\* C9 witness: the exit handler invoked although a user handler was set for
\* the same verb
C9_Witness ==
  /\ UserExitCommand
  /\ invoked # <<>>
  /\ \E d \in SameAsLine : d.command \in Handlers

\* C10 (as claimed): no handler the loop invokes is the placeholder that
\* on(verb) installed.
C10_HandlerSetBeforeDispatch ==
  invoked # <<>> => invoked[1].command # "NoCommand"

\* the record the registry holds at position i of verb v is the one of
\* session id, with the last values that session passed
RecordOf(id, v, i) ==
  /\ cds[v][i].id = id
  /\ v = sess[id].verb
  /\ cds[v][i].verb = sess[id].verb
  /\ cds[v][i].noun = sess[id].noun
  /\ cds[v][i].command = sess[id].command
  /\ cds[v][i].hasReq = sess[id].hasReq
  /\ cds[v][i].req = sess[id].req

\* C11 (as claimed): whatever builder sessions the host program has gone
\* through, no on(verb) call has failed, and the registry holds, next to the
\* exit records, exactly one record per on(verb) call, under that verb, in
\* on-call order, with the noun, handler and required arguments equal to the
\* last values the session passed (unset where the stage was skipped).
C11_BuilderRegistration ==
  pc \notin {"new", "ctorFailed"} =>
    /\ pc # "onFailed"
    /\ \A id \in 1..Len(sess) :
         \E i \in 1..Len(cds[sess[id].verb]) :
           /\ RecordOf(id, sess[id].verb, i)
           /\ \A w \in RegVerbs : \A j \in 1..Len(cds[w]) :
                cds[w][j].id = id => (w = sess[id].verb /\ j = i)
    /\ \A v \in RegVerbs : \A i \in 1..Len(cds[v]) :
         /\ cds[v][i].id \in 0..Len(sess)
         /\ \A j \in (i + 1)..Len(cds[v]) : cds[v][i].id < cds[v][j].id

\* C12: the object on(verb) returns offers with and call and nothing else,
\* the one with(noun) returns offers call only, the one call(handler) returns
\* offers requiring and run only, and the one requiring(list) returns offers
\* run only.
C12_StagedProtocol ==
  \A id \in 1..Len(sess) :
    /\ Methods(sess[id].ret["on"]) = {"with", "call"}
    /\ sess[id].ret["with"] # "none" => Methods(sess[id].ret["with"]) = {"call"}
    /\ sess[id].ret["call"] # "none" =>
         Methods(sess[id].ret["call"]) = {"requiring", "run"}
    /\ sess[id].ret["requiring"] # "none" =>
         Methods(sess[id].ret["requiring"]) = {"run"}

\* C12 witness: a session that went through all four stages
C12_Witness ==
  \E id \in 1..Len(sess) : \A st \in Stages : sess[id].ret[st] # "none"

\* C13 (as claimed): a required argument whose name the parsed line already
\* holds, with any value (the empty string included), is not prompted for
\* and keeps its value.
C13_Idempotence ==
  (pc \in {"prompt", "handler"} /\ cd.hasReq) =>
    \A i \in 1..Len(cd.req) :
      Get(args0, cd.req[i].name) # Undef =>
        /\ ~(pc = "prompt" /\ ri = i)
        /\ Get(args, cd.req[i].name) = Get(args0, cd.req[i].name)

\* every alternative of the required argument req is absent from bag a
AltsAbsent(req, a) ==
  req.hasAlt => \A j \in 1..Len(req.alternatives) : Get(a, req.alternatives[j]) = Undef

\* C14 (as claimed): resolution never fails, also for a required argument
\* that omits alternatives; an argument absent from the line with every
\* alternative absent has been prompted for before the handler runs; an empty
\* or whitespace answer leads to the same prompt again, and a non-empty
\* answer is stored trimmed under the argument's name.
C14_PromptFallback ==
  /\ [](pc = "crashed" => CdsGet(cds, Head(line)) # "array")
  /\ []((pc = "handler" /\ cd.hasReq) =>
         \A i \in 1..Len(cd.req) :
           (Get(args0, cd.req[i].name) = Undef /\ AltsAbsent(cd.req[i], args0)) =>
             (prompts > 0 /\ Get(args, cd.req[i].name).k = "string"))
  /\ [][(pc = "prompt" /\ settled = "value" /\ settled' # "value") =>
          IF held = ""
          THEN pc' = "prompt" /\ ri' = ri /\ cd' = cd /\ prompts' = prompts + 1
          ELSE pc' \in {"prompt", "handler"} /\
               Get(args', cd.req[ri].name) = Str(held)]_vars

\* the tokens of a line that runs of spaces delimit: its non-empty atoms
RECURSIVE Tokens(_)
Tokens(l) ==
  IF l = <<>> THEN <<>>
  ELSE IF Head(l) = "" THEN Tokens(Tail(l))
  ELSE <<Head(l)>> \o Tokens(Tail(l))

\* C15 (as claimed): the verb of a line is its first whitespace-delimited
\* token, and the noun and the flags are what the tokenizer yields for the
\* remaining whitespace-delimited tokens: a run of several spaces delimits
\* as one space does.
C15_LineParsing ==
  (pc = "parsed" /\ Tokens(line) # <<>>) =>
    /\ Head(line) = Head(Tokens(line))
    /\ NounOf(args0) = NounOf(minimist(Tail(Tokens(line)), EmptyBag))
    /\ args0.flags = minimist(Tail(Tokens(line)), EmptyBag).flags

\* C16: a prompt has exactly one outcome, that of the event that arrived
\* first. Once answered, it is not turned into a cancellation: the command
\* goes on with the answer. Once cancelled, it is not turned into an answer:
\* the command is abandoned with "Cancelled" and no handler, a line that
\* arrives afterwards is stored in no bag, and every new prompt starts
\* without a value.
C16_PromptCancelRace ==
  /\ [](settled \in {"none", "pending", "cancel"} => held = "")
  /\ [][settled = "value" =>
          /\ settled' \in {"value", "none", "pending"}
          /\ settled' = "value" => (held' = held /\ args' = args /\ out' = out)
          /\ settled' # "value" =>
               /\ out' # Append(out, "Cancelled")
               /\ pc' \in {"prompt", "handler"}
               /\ held # "" => Get(args', cd.req[ri].name) = Str(held)]_vars
  /\ [][settled = "cancel" =>
          /\ settled' \in {"cancel", "none"}
          /\ settled' = "cancel" => (held' = held /\ args' = args /\ out' = out)
          /\ settled' = "none" =>
               /\ pc' = "read"
               /\ out' = Append(out, "Cancelled")
               /\ invoked' = <<>>
               /\ args' = EmptyBag]_vars

\* C16 witness: the escape key arrived at a prompt already answered
C16_Witness ==
  pc = "prompt" /\ settled = "value" /\ held # "" /\ ignored = "escape"

\* C16 witness, the other order: a line arrived at a prompt already cancelled
C16_WitnessLateAnswer ==
  pc = "prompt" /\ settled = "cancel" /\ ignored = "answer"

\* C17: the escape key while a line is being read or a handler is running,
\* whatever prompts came before, changes nothing: no promise is cancelled,
\* no "Cancelled" is printed, and a running handler still returns.
C17_CancellationScope ==
  [][(pc = "read" \/ pc = "handler") =>
       /\ settled' # "cancel"
       /\ out' # Append(out, "Cancelled")
       /\ (ignored' = "escape" /\ ignored # "escape") =>
            UNCHANGED <<pc, config, cds, nextId, sess, settled, held, listeners,
                        line, out, invoked, returned, prompts, cd, args0, args, ri>>
       /\ pc = "handler" =>
            (\/ pc' = "handler" /\ invoked' = invoked /\ args' = args /\ cd' = cd
             \/ Len(returned') = Len(returned) + 1)
  ]_vars

\* C17 witness: the escape key arrived while a handler was running, after a
\* prompt of the same command
C17_Witness ==
  pc = "handler" /\ ignored = "escape" /\ prompts > 0 /\ listeners > 0

\* C18: the loop does one thing at a time. A line is read only when no
\* prompt is pending and no handler is running, that is after the dispatch of
\* the line before it has completed; a handler is invoked only for the line
\* being dispatched, when none is running, and at most once per line; a
\* running handler returns before anything else happens.
C18_SequentialDispatch ==
  /\ [](Len(invoked) <= 1 /\ Len(returned) <= Len(invoked))
  /\ [](pc = "handler" <=> (Len(invoked) = 1 /\ returned = <<>>))
  /\ [][line' # line => pc = "read"]_vars
  /\ [][(invoked' # invoked /\ invoked' # <<>>) =>
          (pc # "handler" /\ pc' = "handler" /\ line' # NoLine /\
           (pc = "read" \/ (pc = "prompt" /\ line' = line)))]_vars
  /\ [][pc = "handler" =>
          (\/ pc' = "handler" /\ invoked' = invoked /\ line' = line
           \/ pc' \in {"read", "stopped"} /\ Len(returned') = 1 /\ line' = line)]_vars
  /\ [][pc = "prompt" => line' = line]_vars

\* C18 witness: the handler of a line is running, and a line before it was
\* dispatched with a prompt
C18_Witness ==
  pc = "handler" /\ prompts = 0 /\ listeners > 0

\* C19: the handler of a command with required arguments is invoked only
\* with a bag that holds a truthy value under the name of every required
\* argument.
C19_HandlerPrecondition ==
  (invoked # <<>> /\ pc = "handler" /\ cd.hasReq) =>
    \A i \in 1..Len(cd.req) : Truthy(Get(invoked[1].args, cd.req[i].name))

\* C19 witness: a handler invoked for a command with two required arguments,
\* after a prompt
C19_Witness ==
  /\ pc = "handler"
  /\ invoked # <<>>
  /\ cd.hasReq
  /\ Len(cd.req) = 2
  /\ prompts > 0

\* the line read is an exit verb followed by a noun
ExitNounLine ==
  line # NoLine /\ Head(line) \in Range(config) /\ ParsedBag.pos # <<>>

\* the records the builder registered with the line's verb and exactly the
\* line's noun
UserExitNoun ==
  {d \in Range(cds[Head(line)]) : d.id > 0 /\ d.noun = ParsedBag.pos[1]}

\* C20: a line of an exit verb followed by a noun never has the exit handler
\* invoked nor "byeee" printed. When the builder registered no command with
\* that verb and exactly that noun, the line is unrecognized: "wut?", no
\* handler, the loop reading on. When it did, the line is dispatched to the
\* first such command: nothing else is ever invoked for it, the loop stops only
\* if that handler says so, and a command without required arguments is
\* invoked at once.
C20_ExitVerbWithNoun ==
  ExitNounLine =>
    /\ "byeee" \notin Range(out)
    /\ invoked # <<>> =>
         /\ invoked[1].command # "exit"
         /\ \E d \in UserExitNoun :
              /\ invoked[1].id = d.id
              /\ invoked[1].command = d.command
              /\ \A e \in UserExitNoun : d.id <= e.id
    /\ UserExitNoun = {} =>
         (pc = "read" /\ out = <<"wut?">> /\ invoked = <<>> /\ prompts = 0)
    /\ UserExitNoun # {} =>
         /\ "wut?" \notin Range(out)
         /\ pc = "stopped" => (returned # <<>> /\ ~returned[1].success)
         /\ (\E d \in UserExitNoun : ~d.hasReq /\ \A e \in UserExitNoun : d.id <= e.id)
              => invoked # <<>>

\* C20 witness: the handler of a user command registered under an exit verb
\* with a noun is running for a line of that verb and noun
C20_Witness ==
  /\ ExitNounLine
  /\ pc = "handler"
  /\ invoked # <<>>
  /\ invoked[1].command \in Handlers

\* C20 witness, the unrecognized case: an exit verb with a noun nobody
\* registered
C20_WitnessUnrecognized ==
  ExitNounLine /\ UserExitNoun = {} /\ pc = "read" /\ out = <<"wut?">>

====
